---------------------------- MODULE Spec2Model ----------------------------
(***************************************************************************)
(* Jujunaut AI (julianjuko/jujunaut-ai): an Obsidian plugin that POSTs the *)
(* active note to a chat-completions endpoint and streams the reply into   *)
(* the note.  The plugin class exists in two builds, src/unnamed/part_000  *)
(* and src/main.ts; the variable build selects which one a behaviour follows.  *)
(*                                                                         *)
(* Text is a sequence of one-character strings.  Bytes off the wire are    *)
(* the ASCII characters themselves plus the two bytes "C3" "A9" of a       *)
(* two-byte UTF-8 character.                                               *)
(***************************************************************************)
EXTENDS Integers, Sequences, FiniteSets, TLC

-----------------------------------------------------------------------------
(* Bounds of the model *)

\* number of generateText invocations a behaviour may make
MaxSessions == 2
\* number of stopStreaming invocations a behaviour may make
MaxStops == 1

-----------------------------------------------------------------------------
(* Characters and text helpers *)

LF == "\n"
DQ == "\""
BS == "\\"
SP == " "
\* decoded form of the bytes C3 A9, and the decoder's replacement character
UE9 == "U+E9"
UFFFD == "U+FFFD"

Drop(s, n) == SubSeq(s, n + 1, Len(s))
Take(s, n) == SubSeq(s, 1, n)

HasPrefix(s, p) == Len(s) >= Len(p) /\ Take(s, Len(p)) = p

Min(S) == CHOOSE x \in S : \A y \in S : x <= y

\* the concatenation of a sequence of sequences (halving keeps evaluation
\* shallow)
RECURSIVE FlattenRange(_, _, _)
FlattenRange(ss, lo, hi) ==
    IF lo > hi THEN <<>>
    ELSE IF lo = hi THEN ss[lo]
    ELSE LET mid == (lo + hi) \div 2
         IN  FlattenRange(ss, lo, mid) \o FlattenRange(ss, mid + 1, hi)

Flatten(ss) == FlattenRange(ss, 1, Len(ss))

\* String.prototype.indexOf(c): 0 when absent, else the 1-based position
indexOf(s, c) ==
    LET at == {i \in 1..Len(s) : s[i] = c}
    IN  IF at = {} THEN 0 ELSE Min(at)

\* String.prototype.split(sep) for a one-character separator
RECURSIVE split(_, _)
split(s, sep) ==
    LET i == indexOf(s, sep)
    IN  IF i = 0 THEN <<s>> ELSE <<Take(s, i - 1)>> \o split(Drop(s, i), sep)

\* Array.prototype.join(sep)
RECURSIVE join(_, _)
join(parts, sep) ==
    IF Len(parts) = 0 THEN <<>>
    ELSE IF Len(parts) = 1 THEN parts[1]
    ELSE parts[1] \o sep \o join(Tail(parts), sep)

\* new TextDecoder().decode(value): a fresh, non-streaming UTF-8 decoder per
\* chunk.  A truncated or orphaned byte of a multi-byte character decodes to
\* U+FFFD.
decode(b) ==
    IF \A i \in 1..Len(b) : b[i] \notin {"C3", "A9"} THEN b
    ELSE Flatten([i \in 1..Len(b) |->
            IF b[i] = "C3"
            THEN IF i < Len(b) /\ b[i + 1] = "A9" THEN <<UE9>> ELSE <<UFFFD>>
            ELSE IF b[i] = "A9"
            THEN IF i > 1 /\ b[i - 1] = "C3" THEN <<>> ELSE <<UFFFD>>
            ELSE <<b[i]>>])

DataMarker == <<"d", "a", "t", "a", ":", SP>>

\* chunk.replace(/^data: /gm, ""): the marker is removed where it starts the
\* chunk or follows a line break inside the chunk.
MarkerAt(c, j) ==
    /\ j >= 1
    /\ j = 1 \/ c[j - 1] = LF
    /\ j + Len(DataMarker) - 1 <= Len(c)
    /\ SubSeq(c, j, j + Len(DataMarker) - 1) = DataMarker

\* the text from position from on, without the markers at the given starts
RECURSIVE WithoutMarkers(_, _, _)
WithoutMarkers(c, from, starts) ==
    IF starts = {} THEN SubSeq(c, from, Len(c))
    ELSE LET j == Min(starts)
         IN  SubSeq(c, from, j - 1)
             \o WithoutMarkers(c, j + Len(DataMarker), starts \ {j})

stripDataMarkers(chunk) ==
    WithoutMarkers(chunk, 1, {j \in 1..Len(chunk) : MarkerAt(chunk, j)})

-----------------------------------------------------------------------------
(* JavaScript values and JSON.parse *)

\* A value: t is its type tag; s the text of a string (or "true"/"false");
\* keys/items the members of an object, items the elements of an array.
Val(t, s, keys, items) == [t |-> t, s |-> s, keys |-> keys, items |-> items]
Undefined == Val("undefined", <<>>, <<>>, <<>>)
Null == Val("null", <<>>, <<>>, <<>>)
StrVal(s) == Val("str", s, <<>>, <<>>)
BoolVal(b) == Val("bool", IF b THEN <<"true">> ELSE <<"false">>, <<>>, <<>>)
ArrVal(items) == Val("arr", <<>>, <<>>, items)
\* a Number, held as the text String(n) gives for it
NumVal(digits) == Val("num", digits, <<>>, <<>>)
NaN == NumVal(<<"N", "a", "N">>)
ObjVal(keys, items) == Val("obj", <<>>, keys, items)

ParseFail == [ok |-> FALSE, v |-> Undefined, next |-> 0]
ParseOk(v, n) == [ok |-> TRUE, v |-> v, next |-> n]

RECURSIVE SkipWs(_, _)
SkipWs(s, i) == IF i <= Len(s) /\ s[i] = SP THEN SkipWs(s, i + 1) ELSE i

\* whether the character at j is the second character of an escape: an odd
\* number of backslashes runs up to it
Escaped(s, j) ==
    LET runs == {k \in 0..(j - 1) : \A m \in (j - k)..(j - 1) : s[m] = BS}
    IN  IF j = 1 \/ s[j - 1] # BS THEN FALSE
        ELSE (Cardinality(runs) - 1) % 2 = 1

\* body of a JSON string from position i (just after the opening quote) up
\* to the first unescaped quote; the escapes are \n, \" and \\
ParseChars(s, i) ==
    LET quotes == {j \in i..Len(s) : s[j] = DQ /\ ~Escaped(s, j)}
        close == Min(quotes)
        wellFormed ==
            \A k \in i..(close - 1) :
                /\ s[k] # LF
                /\ (s[k] = BS /\ ~Escaped(s, k)) => s[k + 1] \in {"n", DQ, BS}
        chars ==
            IF \A k \in i..(close - 1) : s[k] # BS THEN SubSeq(s, i, close - 1)
            ELSE Flatten([k \in 1..(close - i) |->
                LET at == i + k - 1
                IN  IF Escaped(s, at) THEN <<>>
                    ELSE IF s[at] = BS
                    THEN <<IF s[at + 1] = "n" THEN LF ELSE s[at + 1]>>
                    ELSE <<s[at]>>])
    IN  IF quotes = {} THEN ParseFail
        ELSE IF ~wellFormed THEN ParseFail
        ELSE ParseOk(StrVal(chars), close + 1)

Digits == {"0", "1", "2", "3", "4", "5", "6", "7", "8", "9"}

\* where the run of digits that starts at i ends (i itself when there is none)
RECURSIVE DigitsEnd(_, _)
DigitsEnd(s, i) == IF i <= Len(s) /\ s[i] \in Digits THEN DigitsEnd(s, i + 1) ELSE i

\* a JSON number from position i: -? digits (. digits)?, no leading zero
\* before another digit; exponents are outside the modelled grammar
ParseNumber(s, i, from, intEnd) ==
    IF intEnd = from THEN ParseFail
    ELSE IF s[from] = "0" /\ intEnd > from + 1 THEN ParseFail
    ELSE IF intEnd <= Len(s) /\ s[intEnd] = "."
         THEN IF DigitsEnd(s, intEnd + 1) = intEnd + 1 THEN ParseFail
              ELSE ParseOk(NumVal(SubSeq(s, i, DigitsEnd(s, intEnd + 1) - 1)),
                           DigitsEnd(s, intEnd + 1))
    ELSE ParseOk(NumVal(SubSeq(s, i, intEnd - 1)), intEnd)

IsLiteral(s, i, lit) ==
    /\ i + Len(lit) - 1 <= Len(s)
    /\ SubSeq(s, i, i + Len(lit) - 1) = lit

RECURSIVE ParseValue(_, _)
RECURSIVE ParseMembers(_, _, _, _)
RECURSIVE ParseElements(_, _, _)

ParseValue(s, i0) ==
    LET i == SkipWs(s, i0)
    IN  IF i > Len(s) THEN ParseFail
        ELSE IF s[i] = DQ THEN ParseChars(s, i + 1)
        ELSE IF s[i] = "{"
             THEN LET j == SkipWs(s, i + 1)
                  IN  IF j <= Len(s) /\ s[j] = "}"
                      THEN ParseOk(ObjVal(<<>>, <<>>), j + 1)
                      ELSE ParseMembers(s, j, <<>>, <<>>)
        ELSE IF s[i] = "["
             THEN LET j == SkipWs(s, i + 1)
                  IN  IF j <= Len(s) /\ s[j] = "]"
                      THEN ParseOk(ArrVal(<<>>), j + 1)
                      ELSE ParseElements(s, j, <<>>)
        ELSE IF IsLiteral(s, i, <<"n", "u", "l", "l">>) THEN ParseOk(Null, i + 4)
        ELSE IF IsLiteral(s, i, <<"t", "r", "u", "e">>)
             THEN ParseOk(BoolVal(TRUE), i + 4)
        ELSE IF IsLiteral(s, i, <<"f", "a", "l", "s", "e">>)
             THEN ParseOk(BoolVal(FALSE), i + 5)
        ELSE IF s[i] = "-"
             THEN ParseNumber(s, i, i + 1, DigitsEnd(s, i + 1))
        ELSE IF s[i] \in Digits
             THEN ParseNumber(s, i, i, DigitsEnd(s, i))
        ELSE ParseFail

ParseMembers(s, i, keys, items) ==
    IF i > Len(s) \/ s[i] # DQ THEN ParseFail
    ELSE LET k == ParseChars(s, i + 1)
         IN  IF ~k.ok THEN ParseFail
             ELSE LET c == SkipWs(s, k.next)
                  IN  IF c > Len(s) \/ s[c] # ":" THEN ParseFail
                      ELSE LET v == ParseValue(s, c + 1)
                           IN  IF ~v.ok THEN ParseFail
                               ELSE LET e == SkipWs(s, v.next)
                                        ks == Append(keys, k.v.s)
                                        vs == Append(items, v.v)
                                    IN  IF e > Len(s) THEN ParseFail
                                        ELSE IF s[e] = "}"
                                             THEN ParseOk(ObjVal(ks, vs), e + 1)
                                        ELSE IF s[e] = ","
                                             THEN ParseMembers(s, SkipWs(s, e + 1), ks, vs)
                                        ELSE ParseFail

ParseElements(s, i, items) ==
    LET v == ParseValue(s, i)
    IN  IF ~v.ok THEN ParseFail
        ELSE LET e == SkipWs(s, v.next)
                 vs == Append(items, v.v)
             IN  IF e > Len(s) THEN ParseFail
                 ELSE IF s[e] = "]" THEN ParseOk(ArrVal(vs), e + 1)
                 ELSE IF s[e] = "," THEN ParseElements(s, e + 1, vs)
                 ELSE ParseFail

\* JSON.parse(text): ok = FALSE stands for the SyntaxError it throws.  The
\* grammar covers objects, arrays, strings with the escapes \n \" \\, the
\* literals null, true and false, and numbers without exponent.
WholeText(text, r) ==
    IF r.ok /\ SkipWs(text, r.next) = Len(text) + 1 THEN r ELSE ParseFail

JSONparse(text) == WholeText(text, ParseValue(text, 1))

\* the characters of a string as JSON.stringify writes them between quotes
EscapeChars(s) ==
    Flatten([k \in 1..Len(s) |->
        IF s[k] = LF THEN <<BS, "n">>
        ELSE IF s[k] \in {DQ, BS} THEN <<BS, s[k]>>
        ELSE <<s[k]>>])

\* JSON.stringify(v): a number that is not finite is written as null; the
\* members of an object are written in property order
RECURSIVE JSONstringify(_)
JSONstringify(v) ==
    CASE v.t = "str" -> <<DQ>> \o EscapeChars(v.s) \o <<DQ>>
      [] v.t = "num" -> IF v = NaN THEN <<"n", "u", "l", "l">> ELSE v.s
      [] v.t = "bool" ->
           IF v = BoolVal(TRUE)
           THEN <<"t", "r", "u", "e">>
           ELSE <<"f", "a", "l", "s", "e">>
      [] v.t = "arr" ->
           <<"[">>
           \o Flatten([k \in 1..Len(v.items) |->
                  (IF k > 1 THEN <<",">> ELSE <<>>) \o JSONstringify(v.items[k])])
           \o <<"]">>
      [] v.t = "obj" ->
           <<"{">>
           \o Flatten([k \in 1..Len(v.keys) |->
                  (IF k > 1 THEN <<",">> ELSE <<>>)
                  \o <<DQ>> \o EscapeChars(v.keys[k]) \o <<DQ, ":">>
                  \o JSONstringify(v.items[k])])
           \o <<"}">>
      [] OTHER -> <<"n", "u", "l", "l">>

\* the digits of an integer without its leading zeros
RECURSIVE StripZeros(_)
StripZeros(d) == IF Len(d) > 1 /\ d[1] = "0" THEN StripZeros(Tail(d)) ELSE d

\* parseInt(text): leading blanks are skipped, then an optional sign and the
\* longest run of digits are read; NaN when no digit is there
parseIntFrom(s, i, from) ==
    IF DigitsEnd(s, from) = from THEN NaN
    ELSE IF StripZeros(SubSeq(s, from, DigitsEnd(s, from) - 1)) = <<"0">>
         THEN NumVal(<<"0">>)
    ELSE NumVal((IF from > i /\ s[i] = "-" THEN <<"-">> ELSE <<>>)
                \o StripZeros(SubSeq(s, from, DigitsEnd(s, from) - 1)))

parseIntAt(s, i) ==
    IF i <= Len(s) /\ s[i] \in {"-", "+"}
    THEN parseIntFrom(s, i, i + 1)
    ELSE parseIntFrom(s, i, i)

parseInt(s) == parseIntAt(s, SkipWs(s, 1))

\* ToBoolean
Truthy(v) ==
    CASE v.t \in {"undefined", "null"} -> FALSE
      [] v.t = "str" -> Len(v.s) > 0
      [] v.t = "bool" -> v.s = <<"true">>
      [] v.t = "num" -> v.s \notin {<<"0">>, NaN.s}
      [] OTHER -> TRUE

\* last member of an object with the given key (JSON.parse keeps the last)
RECURSIVE Lookup(_, _, _)
Lookup(v, key, i) ==
    IF i = 0 THEN Undefined
    ELSE IF v.keys[i] = key THEN v.items[i] ELSE Lookup(v, key, i - 1)

\* v[key] for a named property; the caller handles undefined/null receivers
GetProp(v, key) ==
    IF v.t = "obj" THEN Lookup(v, key, Len(v.keys)) ELSE Undefined

\* v.length > 0
LengthPositive(v) ==
    CASE v.t = "arr" -> Len(v.items) > 0
      [] v.t = "str" -> Len(v.s) > 0
      [] OTHER -> FALSE

\* v[0]
Index0(v) ==
    CASE v.t = "arr" -> IF Len(v.items) > 0 THEN v.items[1] ELSE Undefined
      [] v.t = "str" -> IF Len(v.s) > 0 THEN StrVal(<<v.s[1]>>) ELSE Undefined
      [] v.t = "obj" -> GetProp(v, <<"0">>)
      [] OTHER -> Undefined

Nullish(v) == v.t \in {"undefined", "null"}

-----------------------------------------------------------------------------
(* The stream consumer's record step and drain loop *)

KeyChoices == <<"c", "h", "o", "i", "c", "e", "s">>
KeyDelta == <<"d", "e", "l", "t", "a">>
KeyContent == <<"c", "o", "n", "t", "e", "n", "t">>
KeyLength == <<"l", "e", "n", "g", "t", "h">>

\* v.length > 0 for an object: only a length member that is true compares
\* greater than zero in the modelled value space
ObjLengthPositive(v) == v.t = "obj" /\ GetProp(v, KeyLength) = BoolVal(TRUE)

QuoteBreak == <<LF, ">", SP>>

\* an insertion that leaves the text as received, whatever the mode
insertVerbatim(text, useBlockquote) == <<text>>

\* let text = ...delta.content; text.split("\n").join("\n> ") in blockquote
\* mode (a TypeError when text is no string); editor.replaceSelection(text)
insertContent(text, useBlockquote) ==
    IF useBlockquote
    THEN IF text.t = "str"
         THEN <<StrVal(join(split(text.s, LF), QuoteBreak))>>
         ELSE <<>>
    ELSE <<text>>

\* json.choices[0].delta && ...: reading delta of a null or undefined first
\* element is a TypeError
insertDelta(first, delta, useBlockquote) ==
    IF Nullish(first) THEN <<>>
    ELSE IF ~Truthy(delta) THEN <<>>
    ELSE insertContent(GetProp(delta, KeyContent), useBlockquote)

\* json.choices && json.choices.length > 0 && ...
insertChoices(choices, first, useBlockquote) ==
    IF ~Truthy(choices) THEN <<>>
    ELSE IF ~(LengthPositive(choices) \/ ObjLengthPositive(choices)) THEN <<>>
    ELSE insertDelta(first, GetProp(first, KeyDelta), useBlockquote)

\* the statements after JSON.parse: reading choices of null is a TypeError
insertParsed(p, choices, useBlockquote) ==
    IF ~p.ok THEN <<>>
    ELSE IF Nullish(p.v) THEN <<>>
    ELSE insertChoices(choices, Index0(choices), useBlockquote)

insertJson(p, useBlockquote) ==
    insertParsed(p, GetProp(p.v, KeyChoices), useBlockquote)

\* a record step whose catch inserts the line it could not parse
insertUnparsed(jsonString, useBlockquote) ==
    IF JSONparse(jsonString).ok
    THEN insertJson(JSONparse(jsonString), useBlockquote)
    ELSE <<StrVal(jsonString)>>

\* The body of the inner try for one candidate record: the arguments of the
\* editor.replaceSelection calls it makes (none or one).  A SyntaxError of
\* JSON.parse or a TypeError of a property access ends the try in the catch
\* that only logs.
processRecord(jsonString, useBlockquote) ==
    insertJson(JSONparse(jsonString), useBlockquote)

\* The inner while loop: cut candidate records off the buffer at each line
\* break and process them; what follows the last line break stays buffered.
RECURSIVE drain(_, _)
drain(buffer, useBlockquote) ==
    LET endOfObject == indexOf(buffer, LF)
        jsonString == Take(buffer, endOfObject - 1)
        rest == drain(Drop(buffer, endOfObject), useBlockquote)
    IN  IF endOfObject = 0
        THEN [buffer |-> buffer, args |-> <<>>, records |-> <<>>]
        ELSE [buffer |-> rest.buffer,
              args |-> processRecord(jsonString, useBlockquote) \o rest.args,
              records |-> <<jsonString>> \o rest.records]

\* One pass of the outer loop body on a chunk of bytes
handleChunk(buffer, value, useBlockquote) ==
    drain(buffer \o stripDataMarkers(decode(value)), useBlockquote)

-----------------------------------------------------------------------------
(* The note, the auxiliary-content loader and the prompt *)

\* A note (view.data) is a sequence of lines, each a sequence of characters.
\* BT stands for the backtick character.
BT == "BT"
FenceOpen ==
    <<BT, BT, BT, "j", "u", "j", "u", "n", "a", "u", "t", "-",
      "f", "i", "l", "e", "s">>
Fence == <<BT, BT, BT>>

RECURSIVE trimStart(_)
trimStart(s) == IF s # <<>> /\ Head(s) = SP THEN trimStart(Tail(s)) ELSE s

RECURSIVE trimEnd(_)
trimEnd(s) ==
    IF s # <<>> /\ s[Len(s)] = SP THEN trimEnd(Take(s, Len(s) - 1)) ELSE s

\* String.prototype.trim on one line
trim(s) == trimEnd(trimStart(s))

\* text.trim().length === 0 for a note: every line is blank
IsBlankText(text) == \A i \in 1..Len(text) : trim(text[i]) = <<>>

RECURSIVE FirstLineFrom(_, _, _)
FirstLineFrom(text, i, prefix) ==
    IF i > Len(text) THEN 0
    ELSE IF HasPrefix(text[i], prefix) THEN i
    ELSE FirstLineFrom(text, i + 1, prefix)

RECURSIVE NonEmptyTrimmed(_)
NonEmptyTrimmed(lines) ==
    IF lines = <<>> THEN <<>>
    ELSE (IF trim(Head(lines)) = <<>> THEN <<>> ELSE <<trim(Head(lines))>>)
         \o NonEmptyTrimmed(Tail(lines))

\* The first jujunaut-files block, as its non-blank lines trimmed; [] when the
\* note has no closed block.  Fences are taken at line starts.
parseJujunautFilesBlock(text) ==
    LET open == FirstLineFrom(text, 1, FenceOpen)
        close == FirstLineFrom(text, open + 1, Fence)
    IN  IF open = 0 \/ close = 0 \/ trim(text[open]) # FenceOpen THEN <<>>
        ELSE NonEmptyTrimmed(SubSeq(text, open + 1, close - 1))

\* host-supplied locations
VaultRoot == <<"/", "v">>
HomeDir == <<"/", "h">>

\* filePath.replace(/\\/g, "/")
replaceBackslashes(p) == [i \in 1..Len(p) |-> IF p[i] = BS THEN "/" ELSE p[i]]

\* String.prototype.includes
includes(s, sub) == \E i \in 0..(Len(s) - Len(sub)) : HasPrefix(Drop(s, i), sub)

\* the segments of a path with "." and empty segments dropped and ".." applied
RECURSIVE NormalSegments(_, _)
NormalSegments(segs, acc) ==
    IF segs = <<>> THEN acc
    ELSE IF Head(segs) \in {<<>>, <<".">>} THEN NormalSegments(Tail(segs), acc)
    ELSE IF Head(segs) = <<".", ".">>
         THEN NormalSegments(Tail(segs),
                             IF acc = <<>> THEN acc ELSE Take(acc, Len(acc) - 1))
    ELSE NormalSegments(Tail(segs), Append(acc, Head(segs)))

\* path.resolve(base, p) with an absolute base (POSIX)
pathResolve(base, p) ==
    LET full == IF HasPrefix(p, <<"/">>) THEN p ELSE base \o <<"/">> \o p
    IN  <<"/">> \o join(NormalSegments(split(full, "/"), <<>>), <<"/">>)

\* path.join(base, p) with an absolute base (POSIX); a trailing slash is kept
pathJoin(base, p) ==
    LET full == base \o <<"/">> \o p
        norm == <<"/">> \o join(NormalSegments(split(full, "/"), <<>>), <<"/">>)
    IN  IF Len(full) > 1 /\ full[Len(full)] = "/" /\ norm # <<"/">>
        THEN norm \o <<"/">>
        ELSE norm

Letters ==
    {"a", "b", "c", "d", "e", "f", "g", "h", "i", "j", "k", "l", "m", "n", "o", "p",
     "q", "r", "s", "t", "u", "v", "w", "x", "y", "z", "C"}

\* /^[a-zA-Z]:\\/ : a letter, a colon and a backslash
IsDrivePath(p) == Len(p) >= 3 /\ p[1] \in Letters /\ p[2] = ":" /\ p[3] = BS

\* path.join(...parts) of relative parts (POSIX)
pathJoinAll(parts) ==
    join(NormalSegments(split(join(parts, <<"/">>), "/"), <<>>), <<"/">>)

AndroidEmulated ==
    <<"/", "s", "t", "o", "r", "a", "g", "e", "/", "e", "m", "u", "l", "a", "t", "e", "d", "/">>
AndroidSdcard == <<"/", "s", "d", "c", "a", "r", "d", "/">>

\* the tests of resolvePath on the path p whose backslashes were replaced, in
\* the order of the code: POSIX absolute; "." first or ".." inside; drive
\* letter; UNC; Android; "~" first; default
resolveNormalized(p) ==
    IF HasPrefix(p, <<"/">>) THEN p
    ELSE IF HasPrefix(p, <<".">>) \/ includes(p, <<".", ".">>)
         THEN pathResolve(VaultRoot, p)
    ELSE IF IsDrivePath(p) THEN pathJoinAll(split(p, BS))
    ELSE IF HasPrefix(p, <<BS, BS>>)
         THEN <<BS, BS>> \o pathJoinAll(split(Drop(p, 2), BS))
    ELSE IF includes(p, AndroidEmulated) \/ includes(p, AndroidSdcard) THEN p
    ELSE IF HasPrefix(p, <<"~">>) THEN pathJoin(HomeDir, Tail(p))
    ELSE pathResolve(VaultRoot, p)

\* resolvePath of src/unnamed/part_000
resolvePath(filePath) == resolveNormalized(replaceBackslashes(filePath))

\* resolvePath of src/main.ts
resolvePathMain(filePath) ==
    LET p == IF HasPrefix(filePath, <<"~">>)
             THEN pathJoin(HomeDir, Tail(filePath))
             ELSE filePath
    IN  IF ~HasPrefix(p, <<"/">>) THEN pathResolve(VaultRoot, p) ELSE p

\* The file system the loader sees: fs.stat / fs.readdir / fs.readFile.
\* stat and readFile throw on a missing node, readFile on an unreadable one.
FsFile(content) == [kind |-> "file", content |-> content, entries |-> <<>>]
FsDir(entries) == [kind |-> "dir", content |-> <<>>, entries |-> entries]
FsMissing == [kind |-> "missing", content |-> <<>>, entries |-> <<>>]
FsUnreadable == [kind |-> "unreadable", content |-> <<>>, entries |-> <<>>]
DirEntry(name, isFile) == [name |-> name, isFile |-> isFile]

FileSystem(p) ==
    CASE p = <<"/", "v", "/", "a">> -> FsFile(<<"A">>)
      [] p = <<"/", "v", "/", "b">> -> FsUnreadable
      [] p = <<"/", "v", "/", "d">> ->
            FsDir(<<DirEntry(<<"f">>, TRUE), DirEntry(<<"s">>, FALSE),
                    DirEntry(<<"g">>, TRUE)>>)
      [] p = <<"/", "v", "/", "d", "/", "f">> -> FsFile(<<"F">>)
      [] p = <<"/", "v", "/", "d", "/", "g">> -> FsFile(<<"G">>)
      [] p = <<"/", "v", "/", "d", "/", "s">> -> FsDir(<<>>)
      [] p = <<"/", "v", "/", "e">> ->
            FsDir(<<DirEntry(<<"p">>, TRUE), DirEntry(<<"q">>, TRUE),
                    DirEntry(<<"r">>, TRUE)>>)
      [] p = <<"/", "v", "/", "e", "/", "p">> -> FsFile(<<"P">>)
      [] p = <<"/", "v", "/", "e", "/", "q">> -> FsUnreadable
      [] p = <<"/", "v", "/", "e", "/", "r">> -> FsFile(<<"R">>)
      [] p = <<"/", "h", "/", "a">> -> FsFile(<<"H">>)
      [] OTHER -> FsMissing

FileEntry(path, content) == [path |-> path, content |-> content]

\* the for loop over a directory's entries; a failing readFile throws out of
\* the loop, keeping what was pushed before it
RECURSIVE readEntries(_, _)
readEntries(dir, entries) ==
    IF entries = <<>> THEN <<>>
    ELSE LET entry == Head(entries)
             fullPath == pathJoin(dir, entry.name)
             node == FileSystem(fullPath)
         IN  IF ~entry.isFile THEN readEntries(dir, Tail(entries))
             ELSE IF node.kind # "file" THEN <<>>
             ELSE <<FileEntry(fullPath, node.content)>>
                  \o readEntries(dir, Tail(entries))

\* what one path of the list contributes to filesContent
readPath(resolvedPath) ==
    LET node == FileSystem(resolvedPath)
    IN  CASE node.kind = "dir" -> readEntries(resolvedPath, node.entries)
          [] node.kind = "file" -> <<FileEntry(resolvedPath, node.content)>>
          [] OTHER -> <<>>

\* whether the try block of one path ends in its catch
readThrows(resolvedPath) ==
    \/ FileSystem(resolvedPath).kind \in {"missing", "unreadable"}
    \/ /\ FileSystem(resolvedPath).kind = "dir"
       /\ \E i \in 1..Len(FileSystem(resolvedPath).entries) :
             /\ FileSystem(resolvedPath).entries[i].isFile
             /\ FileSystem(pathJoin(resolvedPath,
                                    FileSystem(resolvedPath).entries[i].name)).kind
                # "file"

\* this.resolvePath of the build
resolvePathOf(b, filePath) ==
    IF b = "part_000" THEN resolvePath(filePath) ELSE resolvePathMain(filePath)

RECURSIVE resolveAndReadFiles(_, _)
resolveAndReadFiles(b, filePaths) ==
    IF filePaths = <<>> THEN <<>>
    ELSE readPath(IF b = "part_000" THEN resolvePath(Head(filePaths))
                  ELSE resolvePathMain(Head(filePaths)))
         \o resolveAndReadFiles(b, Tail(filePaths))

Prompt(role, content) == [role |-> role, content |-> content]

\* the fixed instruction of part_000, kept as one token
blockQuotePrompts ==
    <<Prompt("system",
             <<<<"Do not format your responses in blockquotes. The plugin will handle that for you.">>>>)>>

hardCodedSystemPrompts == blockQuotePrompts

\* filesContent.map(...): "File: {path}\n{content}" as the lines of the message
RECURSIVE systemPromptsOf(_)
systemPromptsOf(filesContent) ==
    IF filesContent = <<>> THEN <<>>
    ELSE <<Prompt("system",
                  <<<<"F", "i", "l", "e", ":", SP>> \o Head(filesContent).path,
                    Head(filesContent).content>>)>>
         \o systemPromptsOf(Tail(filesContent))

\* the messages of the POST body
messagesOf(b, prompt, systemPrompts) ==
    (IF b = "part_000" THEN hardCodedSystemPrompts ELSE <<>>)
    \o systemPrompts \o <<Prompt("user", prompt)>>

-----------------------------------------------------------------------------
(* Inputs: notes, settings and response bodies *)

NoteBlank == <<<<SP>>, <<>>>>
NoteHello == <<<<"H", "i">>>>
NoteWithFiles == <<FenceOpen, <<"a">>, <<"x">>, Fence, <<"H", "i">>>>
Notes == {NoteBlank, NoteHello, NoteWithFiles}

DefaultPrefix == <<"A", "I">>

\* DEFAULT_SETTINGS; the numbers are held as Number values, the texts as
\* their characters, the toggle as a truth value
DEFAULT_SETTINGS ==
    [frequencyPenalty |-> NumVal(<<"0">>),
     maxTokens |-> NumVal(<<"4", "0", "9", "6">>),
     openAiApiKey |-> <<>>,
     presencePenalty |-> NumVal(<<"0">>),
     temperature |-> NumVal(<<"1">>),
     topP |-> NumVal(<<"0", ".", "9", "5">>),
     useBlockquote |-> FALSE,
     blockquotePrefix |-> DefaultPrefix]

KeyFrequencyPenalty ==
    <<"f", "r", "e", "q", "u", "e", "n", "c", "y", "P", "e", "n", "a", "l", "t", "y">>
KeyMaxTokens == <<"m", "a", "x", "T", "o", "k", "e", "n", "s">>
KeyOpenAiApiKey == <<"o", "p", "e", "n", "A", "i", "A", "p", "i", "K", "e", "y">>
KeyPresencePenalty ==
    <<"p", "r", "e", "s", "e", "n", "c", "e", "P", "e", "n", "a", "l", "t", "y">>
KeyTemperature == <<"t", "e", "m", "p", "e", "r", "a", "t", "u", "r", "e">>
KeyTopP == <<"t", "o", "p", "P">>
KeyUseBlockquote ==
    <<"u", "s", "e", "B", "l", "o", "c", "k", "q", "u", "o", "t", "e">>
KeyBlockquotePrefix ==
    <<"b", "l", "o", "c", "k", "q", "u", "o", "t", "e", "P", "r", "e", "f", "i", "x">>

\* this.settings as the object handed to saveData: its properties in the
\* order Object.assign({}, DEFAULT_SETTINGS, ...) created them (main.ts has
\* no blockquotePrefix)
settingsObject(b, st) ==
    ObjVal(<<KeyFrequencyPenalty, KeyMaxTokens, KeyOpenAiApiKey, KeyPresencePenalty,
             KeyTemperature, KeyTopP, KeyUseBlockquote>>
           \o (IF b = "part_000" THEN <<KeyBlockquotePrefix>> ELSE <<>>),
           <<st.frequencyPenalty, st.maxTokens, StrVal(st.openAiApiKey),
             st.presencePenalty, st.temperature, st.topP, BoolVal(st.useBlockquote)>>
           \o (IF b = "part_000" THEN <<StrVal(st.blockquotePrefix)>> ELSE <<>>))

\* the plugin's data file: NoData before the first save
NoData == <<>>

\* saveData(this.settings): the host writes the object out as JSON
saveData(b, st) == JSONstringify(settingsObject(b, st))

\* loadData(): null without a data file, else the parsed file
loadData(text) == IF text = NoData THEN Null ELSE JSONparse(text).v

\* the property Object.assign leaves under key: the loaded object's own,
\* whatever its value, else the default's
assigned(loaded, key, default) ==
    IF loaded.t = "obj" /\ \E k \in 1..Len(loaded.keys) : loaded.keys[k] = key
    THEN GetProp(loaded, key)
    ELSE default

\* Object.assign({}, DEFAULT_SETTINGS, loaded)
assignSettings(b, loaded) ==
    [frequencyPenalty |->
        assigned(loaded, KeyFrequencyPenalty, DEFAULT_SETTINGS.frequencyPenalty),
     maxTokens |-> assigned(loaded, KeyMaxTokens, DEFAULT_SETTINGS.maxTokens),
     openAiApiKey |->
        assigned(loaded, KeyOpenAiApiKey, StrVal(DEFAULT_SETTINGS.openAiApiKey)).s,
     presencePenalty |->
        assigned(loaded, KeyPresencePenalty, DEFAULT_SETTINGS.presencePenalty),
     temperature |-> assigned(loaded, KeyTemperature, DEFAULT_SETTINGS.temperature),
     topP |-> assigned(loaded, KeyTopP, DEFAULT_SETTINGS.topP),
     useBlockquote |->
        assigned(loaded, KeyUseBlockquote, BoolVal(DEFAULT_SETTINGS.useBlockquote))
        = BoolVal(TRUE),
     blockquotePrefix |->
        IF b = "part_000"
        THEN assigned(loaded, KeyBlockquotePrefix,
                      StrVal(DEFAULT_SETTINGS.blockquotePrefix)).s
        ELSE DEFAULT_SETTINGS.blockquotePrefix]
\* the settings records a behaviour may run with (useBlockquote toggle and
\* Blockquote Prefix text field)
SettingsChoices ==
    {DEFAULT_SETTINGS,
     [DEFAULT_SETTINGS EXCEPT !.useBlockquote = TRUE],
     [DEFAULT_SETTINGS EXCEPT !.useBlockquote = TRUE, !.blockquotePrefix = <<>>]}

\* what the controls of the settings tab can hand to their onChange handlers
ApiKeys == {<<>>, <<"k">>}
Temperatures == {NumVal(<<"1">>), NumVal(<<"0", ".", "5">>)}
FrequencyPenalties == {NumVal(<<"0">>), NumVal(<<"-", "0", ".", "5">>)}
PresencePenalties == {NumVal(<<"0">>), NumVal(<<"1", ".", "2", "5">>)}
TopPs == {NumVal(<<"0", ".", "9", "5">>), NumVal(<<"1">>)}
MaxTokensEntries == {<<"2", "5", "6">>, <<>>, <<"1", "2", "p", "x">>}
PrefixEntries == {DefaultPrefix, <<>>}

Quoted(s) == <<DQ>> \o s \o <<DQ>>
DeltaRecord(deltaBody) ==
    <<"{">> \o Quoted(KeyChoices) \o <<":", "[", "{">> \o Quoted(KeyDelta)
    \o <<":", "{">> \o deltaBody \o <<"}", "}", "]", "}">>
\* {"choices":[{"delta":{"content":"<c>"}}]}
ContentRecord(c) == DeltaRecord(Quoted(KeyContent) \o <<":">> \o Quoted(c))
\* {"choices":[{"delta":{}}]}
FinishRecord == DeltaRecord(<<>>)
\* {"choices":[]}
NoChoiceRecord == <<"{">> \o Quoted(KeyChoices) \o <<":", "[", "]", "}">>
DoneSentinel == <<"[", "D", "O", "N", "E", "]">>
Malformed == <<"{", "o", "o", "p", "s">>

Framed(record) == DataMarker \o record \o <<LF>>

\* response bodies of the session-lifecycle specification
RespHi == Framed(ContentRecord(<<"H", "i">>))
Responses == {RespHi}

\* response bodies of the chunking specification: a delta and the
\* sentinel; a malformed record between two deltas; records without a content
\* delta; a delta whose text holds a line break, the marker text and a
\* two-byte character; a delta followed by a last record that no line break
\* ends
BodyExample == Framed(ContentRecord(<<"a">>)) \o Framed(DoneSentinel)
BodyMalformed ==
    Framed(ContentRecord(<<"a">>)) \o Framed(Malformed)
    \o Framed(ContentRecord(<<"b">>))
BodyNoDelta == Framed(FinishRecord) \o Framed(NoChoiceRecord)
BodyText ==
    Framed(ContentRecord(<<"x", BS, "n">> \o DataMarker \o <<"C3", "A9">>))
BodyUnterminated ==
    Framed(ContentRecord(<<"u">>)) \o DataMarker \o ContentRecord(<<"z">>)
ChunkResponses ==
    {BodyExample, BodyMalformed, BodyNoDelta, BodyText, BodyUnterminated}

\* Where the transport may cut a body into chunks in the session-lifecycle
\* specification: in the middle of its first line, after its first line and
\* at its end.
CutPoints(bytes) ==
    LET eol == indexOf(bytes, LF)
    IN  {eol \div 2, eol, Len(bytes)}

\* the chunk sizes that lead from position pos to a later cut point
FrameCuts(bytes, pos) == {p - pos : p \in {q \in CutPoints(bytes) : q > pos}}

-----------------------------------------------------------------------------
(* State *)

VARIABLES
    build,          \* "part_000" or "main_ts": which source file runs
    settings,       \* this.settings
    data,           \* the text of the plugin's data file
    loaded,         \* history: this.settings was last written by loadSettings
    loader,         \* a run of resolveAndReadFiles: the paths still to read,
                    \* the last resolvedPath, filesContent, console.error calls
    isStreaming,    \* this.isStreaming
    streamReader,   \* this.streamReader: a reader id, or NoReader for null
    pc,             \* where each generateText invocation stands
    prompt,         \* the text each invocation captured from view.data
    posted,         \* the messages of the POST each invocation has in flight
    buffer,         \* each invocation's local carry-over buffer
    awaiting,       \* the reader whose read() each invocation awaits
    stream,         \* each response body: bytes, bytes delivered, state, cancel() calls
    pending,        \* each reader's queue of unresolved read() requests
    jobs,           \* promise jobs (settled reads) not yet run
    calls,          \* editor.replaceSelection calls, in order, with the caller
    notices,        \* how often each Notice text was shown
    end,            \* history: how each invocation ended
    stopped         \* history: the invocations that were in the read loop
                    \* when stopStreaming was called

vars ==
    <<build, settings, data, loaded, loader, isStreaming, streamReader, pc, prompt, posted, buffer,
      awaiting, stream, pending, jobs, calls, notices, end, stopped>>

Sessions == 1..MaxSessions
NoReader == 0

NoticeEmpty == "The note is empty. Please add some content."
NoticeBusy == "Streaming is already in progress. Please stop it first."
NoticeNoBody == "Failed to receive streamable response."
NoticeStopped == "Streaming stopped."
NoticeTexts == {NoticeEmpty, NoticeBusy, NoticeNoBody, NoticeStopped}

NoStream == [bytes |-> <<>>, pos |-> 0, state |-> "none", cancels |-> 0]

\* a body that left the readable state holds no bytes any more
Ended(st, state) ==
    [bytes |-> <<>>, pos |-> 0, state |-> state, cancels |-> st.cancels]

\* reader.cancel(): a readable stream becomes cancelled; the call is counted
Cancelled(st) ==
    [(IF st.state = "readable" THEN Ended(st, "cancelled") ELSE st)
        EXCEPT !.cancels = @ + 1]

Loader(filePaths, resolvedPath, filesContent, logged) ==
    [filePaths |-> filePaths, resolvedPath |-> resolvedPath,
     filesContent |-> filesContent, logged |-> logged]
LoaderIdle == Loader(<<>>, <<>>, <<>>, 0)

InitWith(choices) ==
    /\ build \in {"part_000", "main_ts"}
    /\ settings \in choices
    /\ build = "main_ts" => settings.blockquotePrefix = DefaultPrefix
    /\ data = IF settings = DEFAULT_SETTINGS THEN NoData ELSE saveData(build, settings)
    /\ loaded = TRUE
    /\ isStreaming = FALSE
    /\ streamReader = NoReader
    /\ pc = [s \in Sessions |-> "idle"]
    /\ prompt = [s \in Sessions |-> <<>>]
    /\ posted = [s \in Sessions |-> <<>>]
    /\ buffer = [s \in Sessions |-> <<>>]
    /\ awaiting = [s \in Sessions |-> NoReader]
    /\ stream = [r \in Sessions |-> NoStream]
    /\ pending = [r \in Sessions |-> <<>>]
    /\ jobs = <<>>
    /\ calls = <<>>
    /\ notices = [t \in NoticeTexts |-> 0]
    /\ end = [s \in Sessions |-> "none"]
    /\ stopped = {}

Init ==
    /\ InitWith({c \in SettingsChoices : c.blockquotePrefix = DefaultPrefix})
    /\ loader = LoaderIdle

-----------------------------------------------------------------------------
(* Operations *)

\* a rejection that shows nothing
Silent(text) == UNCHANGED notices

Notice(text) == notices' = [notices EXCEPT ![text] = @ + 1]

Call(s, arg) == [by |-> s, arg |-> arg]

RECURSIVE CallsBy(_, _)
CallsBy(s, args) ==
    IF args = <<>> THEN <<>> ELSE <<Call(s, Head(args))>> \o CallsBy(s, Tail(args))

RECURSIVE Settled(_, _)
Settled(readers, outcome) ==
    IF readers = <<>> THEN <<>>
    ELSE <<[s |-> Head(readers), outcome |-> outcome]>>
         \o Settled(Tail(readers), outcome)

\* a release that cancels and nulls the reader but leaves the flag as it is
releaseReaderOnly(jobsRest) ==
    /\ IF streamReader # NoReader
       THEN /\ stream' = [stream EXCEPT ![streamReader] = Cancelled(@)]
            /\ pending' = [pending EXCEPT ![streamReader] =
                              IF stream[streamReader].state = "readable"
                              THEN <<>> ELSE @]
            /\ jobs' = jobsRest
                       \o (IF stream[streamReader].state = "readable"
                           THEN Settled(pending[streamReader], "done") ELSE <<>>)
       ELSE /\ jobs' = jobsRest
            /\ UNCHANGED <<stream, pending>>
    /\ streamReader' = NoReader
    /\ UNCHANGED isStreaming

\* if (this.streamReader) { this.streamReader.cancel(); this.streamReader =
\* null; } this.isStreaming = false;  -- shared by the finally block and
\* stopStreaming.  Cancelling a readable stream closes it, which resolves its
\* pending reads with done; jobsRest are the promise jobs already queued.
releaseReader(jobsRest) ==
    /\ IF streamReader # NoReader
       THEN LET r == streamReader
                open == stream[r].state = "readable"
            IN  /\ stream' = [stream EXCEPT ![r] = Cancelled(@)]
                /\ pending' = [pending EXCEPT ![r] = IF open THEN <<>> ELSE @]
                /\ jobs' = jobsRest
                           \o (IF open THEN Settled(pending[r], "done") ELSE <<>>)
       ELSE /\ jobs' = jobsRest
            /\ UNCHANGED <<stream, pending>>
    /\ streamReader' = NoReader
    /\ isStreaming' = FALSE

\* generateText up to its first suspension; the POST is issued in the same
\* turn when the note names no files (the loader then awaits nothing).
generateText(s, text) ==
    /\ jobs = <<>>
    /\ pc[s] = "idle"
    /\ \A t \in Sessions : t < s => pc[t] # "idle"
    /\ IF IsBlankText(text)
       THEN /\ Notice(NoticeEmpty)
            /\ pc' = [pc EXCEPT ![s] = "rejected"]
            /\ end' = [end EXCEPT ![s] = "empty"]
            /\ UNCHANGED <<prompt, posted>>
       ELSE IF isStreaming
       THEN /\ Notice(NoticeBusy)
            /\ pc' = [pc EXCEPT ![s] = "rejected"]
            /\ end' = [end EXCEPT ![s] = "busy"]
            /\ UNCHANGED <<prompt, posted>>
       ELSE IF parseJujunautFilesBlock(text) = <<>>
       THEN /\ pc' = [pc EXCEPT ![s] = "fetch"]
            /\ posted' = [posted EXCEPT ![s] = messagesOf(build, text, <<>>)]
            /\ UNCHANGED <<notices, end, prompt>>
       ELSE /\ pc' = [pc EXCEPT ![s] = "files"]
            /\ prompt' = [prompt EXCEPT ![s] = text]
            /\ UNCHANGED <<notices, end, posted>>
    /\ UNCHANGED <<build, settings, data, loaded, loader,
                   stopped, isStreaming, streamReader, buffer, awaiting,
                   stream, pending, jobs, calls>>

\* resolveAndReadFiles returns; generateText builds the system prompts and
\* streamOpenAI issues the POST.
filesRead(s) ==
    /\ jobs = <<>>
    /\ pc[s] = "files"
    /\ LET filePaths == parseJujunautFilesBlock(prompt[s])
           filesContent == resolveAndReadFiles(build, filePaths)
       IN  posted' = [posted EXCEPT ![s] =
               messagesOf(build, prompt[s], systemPromptsOf(filesContent))]
    /\ prompt' = [prompt EXCEPT ![s] = <<>>]
    /\ pc' = [pc EXCEPT ![s] = "fetch"]
    /\ UNCHANGED <<build, settings, data, loaded, loader,
                   stopped, isStreaming, streamReader, buffer,
                   awaiting, stream, pending, jobs, calls, notices, end>>

QuotePrefix ==
    IF build = "part_000"
    THEN <<">", SP, "[", "!", "a", "i", "]", SP>>
         \o (IF Len(settings.blockquotePrefix) > 0
             THEN settings.blockquotePrefix
             ELSE DefaultPrefix)
         \o <<LF, ">", SP>>
    ELSE <<">", SP>>

\* The read loop's next this.streamReader.read() by invocation s, with the
\* reader field, streams, queues and jobs as given: the read is queued on the
\* reader the field holds now; a null field throws a TypeError.
nextRead(s, field, strm, pend, jbs) ==
    IF field = NoReader
    THEN [threw |-> TRUE, awaiting |-> NoReader, pending |-> pend, jobs |-> jbs]
    ELSE IF strm[field].state = "readable"
    THEN [threw |-> FALSE, awaiting |-> field,
          pending |-> [pend EXCEPT ![field] = Append(@, s)], jobs |-> jbs]
    ELSE [threw |-> FALSE, awaiting |-> field, pending |-> pend,
          jobs |-> Append(jbs, [s |-> s,
                                outcome |-> IF strm[field].state = "errored"
                                            THEN "error" ELSE "done"])]

\* fetch resolves with a body: the reader is acquired, the flag set, the
\* quote prefix inserted, and the first read issued.
fetchResolves(s, body) ==
    /\ jobs = <<>>
    /\ pc[s] = "fetch"
    /\ streamReader' = s
    /\ isStreaming' = TRUE
    /\ stream' = [stream EXCEPT ![s] =
                    [bytes |-> body, pos |-> 0, state |-> "readable", cancels |-> 0]]
    /\ buffer' = [buffer EXCEPT ![s] = <<>>]
    /\ calls' = IF settings.useBlockquote
                THEN Append(calls, Call(s, StrVal(QuotePrefix)))
                ELSE calls
    /\ pending' = [pending EXCEPT ![s] = <<s>>]
    /\ awaiting' = [awaiting EXCEPT ![s] = s]
    /\ pc' = [pc EXCEPT ![s] = "read"]
    /\ posted' = [posted EXCEPT ![s] = <<>>]
    /\ UNCHANGED <<build, settings, data, loaded, loader,
                   stopped, prompt, jobs, notices, end>>

\* a body check placed after the flag is set
fetchNoBodyStreaming(s) ==
    /\ jobs = <<>>
    /\ pc[s] = "fetch"
    /\ isStreaming' = TRUE
    /\ notices' = [notices EXCEPT ![NoticeNoBody] = @ + 1]
    /\ pc' = [pc EXCEPT ![s] = "done"]
    /\ end' = [end EXCEPT ![s] = "nobody"]
    /\ posted' = [posted EXCEPT ![s] = <<>>]
    /\ UNCHANGED <<build, settings, data, loaded, loader,
                   stopped, streamReader, prompt,
                   buffer, awaiting, stream, pending, jobs, calls>>

\* fetch resolves with a response that has no body
fetchNoBody(s) ==
    /\ jobs = <<>>
    /\ pc[s] = "fetch"
    /\ Notice(NoticeNoBody)
    /\ pc' = [pc EXCEPT ![s] = "done"]
    /\ end' = [end EXCEPT ![s] = "nobody"]
    /\ posted' = [posted EXCEPT ![s] = <<>>]
    /\ UNCHANGED <<build, settings, data, loaded, loader,
                   stopped, isStreaming, streamReader, prompt,
                   buffer, awaiting, stream, pending, jobs, calls>>

\* fetch rejects: the await throws outside any try, out of streamOpenAI and
\* generateText (whose callers do not await it)
fetchRejects(s) ==
    /\ jobs = <<>>
    /\ pc[s] = "fetch"
    /\ pc' = [pc EXCEPT ![s] = "done"]
    /\ end' = [end EXCEPT ![s] = "fetcherror"]
    /\ posted' = [posted EXCEPT ![s] = <<>>]
    /\ UNCHANGED <<build, settings, data, loaded, loader,
                   stopped, isStreaming, streamReader, prompt,
                   buffer, awaiting, stream, pending, jobs, calls, notices>>

\* The oldest pending read of a stream resolves with the next n bytes; the
\* invocation decodes, strips, buffers and drains them, then goes round the
\* loop: main.ts tests this.isStreaming, part_000 its local flag, and the
\* next read is issued on this.streamReader.
readResolvesValue(s, n) ==
    /\ jobs = <<>>
    /\ pc[s] = "read"
    /\ LET r == awaiting[s]
       IN  /\ r # NoReader
           /\ stream[r].state = "readable"
           /\ pending[r] # <<>> /\ Head(pending[r]) = s
           /\ n >= 1 /\ stream[r].pos + n <= Len(stream[r].bytes)
           /\ LET value == SubSeq(stream[r].bytes, stream[r].pos + 1,
                                  stream[r].pos + n)
                  h == handleChunk(buffer[s], value, settings.useBlockquote)
                  strm == [stream EXCEPT ![r].pos = @ + n]
                  pend == [pending EXCEPT ![r] = Tail(@)]
                  loops == build = "part_000" \/ isStreaming
                  nr == nextRead(s, streamReader, strm, pend, <<>>)
              IN  /\ calls' = calls \o CallsBy(s, h.args)
                  /\ IF loops /\ ~nr.threw
                     THEN /\ buffer' = [buffer EXCEPT ![s] = h.buffer]
                          /\ stream' = strm
                          /\ pending' = nr.pending
                          /\ jobs' = nr.jobs
                          /\ awaiting' = [awaiting EXCEPT ![s] = nr.awaiting]
                          /\ UNCHANGED <<streamReader, isStreaming, pc, end>>
                     ELSE \* the loop ends or read() threw: (catch and) finally
                          /\ IF streamReader # NoReader
                             THEN LET f == streamReader
                                      open == strm[f].state = "readable"
                                  IN  /\ stream' = [strm EXCEPT ![f] = Cancelled(@)]
                                      /\ pending' = [pend EXCEPT
                                            ![f] = IF open THEN <<>> ELSE @]
                                      /\ jobs' = IF open
                                                 THEN Settled(pend[f], "done")
                                                 ELSE <<>>
                             ELSE /\ stream' = strm
                                  /\ pending' = pend
                                  /\ jobs' = <<>>
                          /\ streamReader' = NoReader
                          /\ isStreaming' = FALSE
                          /\ buffer' = [buffer EXCEPT ![s] = <<>>]
                          /\ awaiting' = [awaiting EXCEPT ![s] = NoReader]
                          /\ pc' = [pc EXCEPT ![s] = "done"]
                          /\ end' = [end EXCEPT ![s] =
                                 IF loops THEN "typeerror" ELSE "flag"]
    /\ UNCHANGED <<build, settings, data, loaded, loader,
                   stopped, prompt, posted, notices>>

\* The response body ends: every pending read of the stream resolves done.
streamCloses(r) ==
    /\ jobs = <<>>
    /\ stream[r].state = "readable"
    /\ stream[r].pos = Len(stream[r].bytes)
    /\ pending[r] # <<>>
    /\ stream' = [stream EXCEPT ![r] = Ended(@, "closed")]
    /\ jobs' = Settled(pending[r], "done")
    /\ pending' = [pending EXCEPT ![r] = <<>>]
    /\ UNCHANGED <<build, settings, data, loaded, loader,
                   stopped, isStreaming, streamReader, pc, prompt,
                   posted, buffer, awaiting, calls, notices,
                   end>>

\* The transport fails mid-stream: every pending read of the stream rejects.
streamErrors(r) ==
    /\ jobs = <<>>
    /\ stream[r].state = "readable"
    /\ pending[r] # <<>>
    /\ stream' = [stream EXCEPT ![r] = Ended(@, "errored")]
    /\ jobs' = Settled(pending[r], "error")
    /\ pending' = [pending EXCEPT ![r] = <<>>]
    /\ UNCHANGED <<build, settings, data, loaded, loader,
                   stopped, isStreaming, streamReader, pc, prompt,
                   posted, buffer, awaiting, calls, notices,
                   end>>

\* a continuation that hands what is left in the buffer to the record step
\* before it leaves
readSettlesFlushing ==
    /\ jobs # <<>>
    /\ releaseReader(Tail(jobs))
    /\ calls' = calls \o CallsBy(Head(jobs).s,
                                  processRecord(buffer[Head(jobs).s],
                                                settings.useBlockquote))
    /\ pc' = [pc EXCEPT ![Head(jobs).s] = "done"]
    /\ buffer' = [buffer EXCEPT ![Head(jobs).s] = <<>>]
    /\ awaiting' = [awaiting EXCEPT ![Head(jobs).s] = NoReader]
    /\ end' = [end EXCEPT ![Head(jobs).s] =
           IF Head(jobs).outcome = "error" THEN "readerror"
           ELSE IF stream[awaiting[Head(jobs).s]].state = "closed" THEN "eos"
           ELSE "cancelled"]
    /\ UNCHANGED <<build, settings, data, loaded, loader,
                   stopped, prompt, posted, notices>>

\* The continuation of a read that settled done (break) or rejected (catch):
\* both leave through the finally block.
readSettles ==
    /\ jobs # <<>>
    /\ LET job == Head(jobs)
           r == awaiting[job.s]
       IN  /\ releaseReader(Tail(jobs))
           /\ pc' = [pc EXCEPT ![job.s] = "done"]
           /\ buffer' = [buffer EXCEPT ![job.s] = <<>>]
           /\ awaiting' = [awaiting EXCEPT ![job.s] = NoReader]
           /\ end' = [end EXCEPT ![job.s] =
                  IF job.outcome = "error" THEN "readerror"
                  ELSE IF stream[r].state = "closed" THEN "eos"
                  ELSE "cancelled"]
    /\ UNCHANGED <<build, settings, data, loaded, loader,
                   stopped, prompt, posted, calls, notices>>

stopStreaming ==
    /\ jobs = <<>>
    /\ notices[NoticeStopped] < MaxStops
    /\ releaseReader(<<>>)
    /\ Notice(NoticeStopped)
    /\ stopped' = stopped \cup {s \in Sessions : pc[s] = "read"}
    /\ UNCHANGED <<build, settings, data, loaded, loader,
                   pc, prompt, posted, buffer, awaiting, calls, end>>

\* the body an invocation's read waits on
Awaited(s) == IF awaiting[s] = NoReader THEN NoStream ELSE stream[awaiting[s]]

Next ==
    \/ \E s \in Sessions : \E text \in Notes : generateText(s, text)
    \/ \E s \in Sessions : filesRead(s)
    \/ \E s \in Sessions : \E body \in Responses : fetchResolves(s, body)
    \/ \E s \in Sessions : fetchNoBody(s)
    \/ \E s \in Sessions : fetchRejects(s)
    \/ \E s \in Sessions :
          \E n \in FrameCuts(Awaited(s).bytes, Awaited(s).pos) :
              readResolvesValue(s, n)
    \/ \E r \in Sessions : streamCloses(r)
    \/ \E r \in Sessions : streamErrors(r)
    \/ readSettles
    \/ stopStreaming

Spec == Init /\ [][Next]_vars

\* One invocation whose response arrives cut at arbitrary byte positions.
NextChunk ==
    \/ generateText(1, NoteHello)
    \/ \E body \in ChunkResponses : fetchResolves(1, body)
    \/ \E n \in 1..(Len(Awaited(1).bytes) - Awaited(1).pos) :
          readResolvesValue(1, n)
    \/ streamCloses(1)
    \/ streamErrors(1)
    \/ readSettles
    \/ stopStreaming

SpecChunk == Init /\ [][NextChunk]_vars

-----------------------------------------------------------------------------
(* Properties of the session lifecycle (Spec) *)

\* the invocations past the guards of generateText and not yet returned
PastGuard == {s \in Sessions : pc[s] \in {"files", "fetch", "read"}}

\* the calls a step appends to the editor's call log
NewCalls == SubSeq(calls', Len(calls) + 1, Len(calls'))

\* C1: at most one invocation is past the guard (reading files, awaiting the
\* POST, or in the read loop) at any time; a generate invoked before an
\* earlier accepted one has finished is rejected and issues no second POST.
C1_OneSessionPastGuard == Cardinality(PastGuard) <= 1

\* C2: once stopStreaming has been called while an invocation was in its read
\* loop, the flag is false when the call returns and that invocation makes no
\* further insertion.
C2_NoInsertionAfterStop ==
    [][/\ notices'[NoticeStopped] > notices[NoticeStopped] => ~isStreaming'
       /\ \A i \in 1..Len(NewCalls) : NewCalls[i].by \notin stopped]_vars

\* C3: when an invocation that acquired a reader leaves streamOpenAI, its
\* reader has been cancelled exactly once in total, isStreaming is false and
\* streamReader is null.
C3_ReaderCancelledOnce ==
    [][\A s \in Sessions :
          (pc[s] = "read" /\ pc'[s] = "done")
          => /\ stream'[s].cancels = 1
             /\ ~isStreaming'
             /\ streamReader' = NoReader]_vars

\* how an invocation ends on a transport error: the POST fails, the response
\* has no body, a read fails mid-stream
TransportEnds == {"fetcherror", "nobody", "readerror"}

\* C8: every transport error of an invocation is shown as a notice and ends
\* the invocation with isStreaming false and streamReader null.
C8_TransportErrorNoticed ==
    [][\A s \in Sessions :
          (end[s] = "none" /\ end'[s] \in TransportEnds)
          => /\ \E t \in NoticeTexts : notices'[t] > notices[t]
             /\ ~isStreaming'
             /\ streamReader' = NoReader]_vars

\* C9: on a response without a body streamOpenAI shows its notice and
\* returns; it has not set isStreaming, has acquired no reader and has made
\* no insertion, and the step changes none of these.
C9_NoBodyLeavesNoTrace ==
    [][\A s \in Sessions :
          (end[s] = "none" /\ end'[s] = "nobody")
          => /\ notices' = [notices EXCEPT ![NoticeNoBody] = @ + 1]
             /\ pc'[s] = "done"
             /\ stream[s] = NoStream
             /\ \A i \in 1..Len(calls) : calls[i].by # s
             /\ UNCHANGED <<isStreaming, streamReader, calls, stream,
                            pending, awaiting, buffer>>]_vars

\* an invocation ended on a response without a body while nothing streams
C9_Witness ==
    \E s \in Sessions : end[s] = "nobody" /\ pc[s] = "done" /\ ~isStreaming

\* C10: a generate rejected by a guard shows exactly one notice (empty note
\* or already streaming) and changes nothing else: flag, reader, file reads,
\* POSTs and the document stay as they were; and a generate invoked while
\* isStreaming is true is rejected.
C10_RejectionChangesNothing ==
    [][\A s \in Sessions :
          /\ (pc[s] = "idle" /\ pc'[s] = "rejected")
             => /\ \/ notices' = [notices EXCEPT ![NoticeEmpty] = @ + 1]
                   \/ notices' = [notices EXCEPT ![NoticeBusy] = @ + 1]
                /\ \A t \in Sessions \ {s} : pc'[t] = pc[t]
                /\ UNCHANGED <<isStreaming, streamReader, prompt, posted,
                               calls, stream, pending, awaiting, buffer,
                               jobs, settings>>
          /\ (pc[s] = "idle" /\ pc'[s] # "idle" /\ isStreaming)
             => pc'[s] = "rejected"]_vars

\* a generate was rejected because a stream is active, which still is
C10_Witness ==
    \E s \in Sessions :
        /\ pc[s] = "rejected"
        /\ end[s] = "busy"
        /\ isStreaming
        /\ notices[NoticeBusy] = 1

-----------------------------------------------------------------------------
(* Properties of the read loop (SpecChunk) *)

ArgsOf(cs) == [i \in 1..Len(cs) |-> cs[i].arg]

\* a step in which a read of invocation s resolves with bytes
ChunkStep(s) ==
    /\ stream[s].state = "readable"
    /\ stream'[s].state = "readable"
    /\ stream'[s].pos > stream[s].pos

\* the bytes of the body of s from its read position up to position to
ChunkValue(s, to) == SubSeq(stream[s].bytes, stream[s].pos + 1, to)

\* where the line holding byte pos + 1 of the body begins
LineStart(bytes, pos) ==
    1 + Cardinality({j \in 1..pos : \E k \in j..pos : bytes[k] = LF})

\* the text the drain loop of that step works on, cut at its line breaks:
\* the candidate records (complete lines) and, last, what follows the last
\* line break
ChunkLines(s, value) == split(buffer[s] \o stripDataMarkers(decode(value)), LF)

\* json.choices[0].delta.content where every step of the path exists,
\* undefined otherwise
DeltaContent(json) ==
    GetProp(GetProp(Index0(GetProp(json, KeyChoices)), KeyDelta), KeyContent)

\* C4: however the body is cut into chunks, once its last byte has been
\* handled the insertions made for its records are those made when the whole
\* body arrives as one chunk.
C4_ChunkBoundaryIndependence ==
    [][(ChunkStep(1) /\ stream'[1].pos = Len(stream[1].bytes))
       => ArgsOf(IF settings.useBlockquote THEN Tail(calls') ELSE calls')
          = handleChunk(<<>>, stream[1].bytes, settings.useBlockquote).args]_vars

\* C5: when a chunk starts inside a record (part of the record's line came
\* with earlier chunks), a chunk without a line break makes no insertion, and
\* a chunk with one makes the insertions of the whole record (and of the
\* records that follow it in the chunk), each once.
C5_SplitRecordInsertedOnce ==
    [][(ChunkStep(1) /\ LineStart(stream[1].bytes, stream[1].pos) <= stream[1].pos)
       => \A to \in {stream'[1].pos} :
            IF \A j \in 1..Len(ChunkValue(1, to)) : ChunkValue(1, to)[j] # LF
            THEN calls' = calls
            ELSE ArgsOf(NewCalls)
                 = handleChunk(<<>>,
                               SubSeq(stream[1].bytes,
                                      LineStart(stream[1].bytes, stream[1].pos),
                                      to),
                               settings.useBlockquote).args]_vars

\* the insertions of the candidate records among lines when exactly those
\* of the given indices insert
InsertionsOf(lines, inserting, useBlockquote) ==
    Flatten([i \in 1..(Len(lines) - 1) |->
        IF i \in inserting
        THEN insertJson(JSONparse(lines[i]), useBlockquote)
        ELSE <<>>])

\* C6: every complete line of the buffer is consumed; a line that fails
\* JSON.parse causes no insertion and does not end the session; the lines
\* before and after it that parse have their deltas inserted, in order.
C6_MalformedRecordSkipped ==
    [][ChunkStep(1)
       => \A lines \in {ChunkLines(1, ChunkValue(1, stream'[1].pos))} :
            /\ ArgsOf(NewCalls)
               = InsertionsOf(lines,
                              {i \in 1..(Len(lines) - 1) : JSONparse(lines[i]).ok},
                              settings.useBlockquote)
            /\ buffer'[1] = lines[Len(lines)]
            /\ pc'[1] = "read"
            /\ end'[1] = "none"]_vars

\* a malformed line between two deltas was consumed and both deltas were
\* inserted, in order
C6_Witness ==
    /\ stream[1].bytes = BodyMalformed
    /\ stream[1].pos = Len(BodyMalformed)
    /\ pc[1] = "read"
    /\ buffer[1] = <<>>
    /\ \E i, j \in 1..Len(calls) :
          /\ i < j
          /\ calls[i].arg = StrVal(<<"a">>)
          /\ calls[j].arg = StrVal(<<"b">>)

\* C7: a record that parses but carries no content delta (no choices, an
\* empty choices list, a first choice without delta, a delta without
\* content) causes no editor.replaceSelection call, in either mode.
C7_NoDeltaNoCall ==
    [][ChunkStep(1)
       => \A lines \in {ChunkLines(1, ChunkValue(1, stream'[1].pos))} :
            ArgsOf(NewCalls)
            = InsertionsOf(lines,
                           {i \in 1..(Len(lines) - 1) :
                               /\ JSONparse(lines[i]).ok
                               /\ DeltaContent(JSONparse(lines[i]).v) # Undefined},
                           settings.useBlockquote)]_vars

-----------------------------------------------------------------------------
(* Ownership, ordering and the flag/reader pair (Spec) *)

\* C11: the cleanup of an invocation (its leaving the read loop through the
\* finally block) cancels no reader acquired by another invocation, does not
\* null the field while it holds another invocation's reader, and does not
\* clear the flag while another invocation is still in its read loop.
C11_ReaderOwnedBySession ==
    [][\A s \in Sessions :
          (pc[s] = "read" /\ pc'[s] = "done")
          => /\ \A r \in Sessions \ {s} : stream'[r].cancels = stream[r].cancels
             /\ streamReader \notin {s, NoReader} => streamReader' = streamReader
             /\ (\E t \in Sessions \ {s} : pc'[t] = "read")
                => isStreaming' = isStreaming]_vars


\* C12: what a chunk step inserts is the content deltas of the records it
\* parses, in the order of their lines, each once and all by the invocation
\* that read the chunk; and the insertions of two invocations are never
\* interleaved in the call log.
C12_InsertionsInArrivalOrder ==
    [][/\ \A s \in Sessions :
             ChunkStep(s)
             => \A lines \in {ChunkLines(s, ChunkValue(s, stream'[s].pos))} :
                  /\ ArgsOf(NewCalls)
                     = InsertionsOf(lines,
                                    {i \in 1..(Len(lines) - 1) :
                                        /\ JSONparse(lines[i]).ok
                                        /\ DeltaContent(JSONparse(lines[i]).v).t = "str"},
                                    settings.useBlockquote)
                  /\ \A i \in 1..Len(NewCalls) : NewCalls[i].by = s
       /\ \A i, j, k \in 1..Len(calls') :
             (i < j /\ j < k /\ calls'[i].by = calls'[k].by)
             => calls'[j].by = calls'[i].by]_vars


-----------------------------------------------------------------------------
(* Quoting (SpecChunk) *)

IsStr(v) == v.t = "str"

\* the delta texts of the complete lines that parse, in line order
DeltaTexts(lines) ==
    SelectSeq([i \in 1..(Len(lines) - 1) |->
                  IF JSONparse(lines[i]).ok
                  THEN DeltaContent(JSONparse(lines[i]).v)
                  ELSE Undefined],
              IsStr)

\* d with the quote marker put after each of its line breaks
QuoteLines(d) ==
    Flatten([i \in 1..Len(d) |-> IF d[i] = LF THEN <<LF, ">", SP>> ELSE <<d[i]>>])

\* C13: in blockquote mode the text inserted for a delta text d is d with
\* every line break followed by the quote marker "> " and nothing else
\* changed (so d itself when it holds no line break); with blockquote mode
\* off the text inserted is d.
C13_QuoteMarkerAfterEachBreak ==
    [][ChunkStep(1)
       => \A ds \in {DeltaTexts(ChunkLines(1, ChunkValue(1, stream'[1].pos)))} :
            SelectSeq(ArgsOf(NewCalls), IsStr)
            = [k \in 1..Len(ds) |->
                  StrVal(IF settings.useBlockquote
                         THEN QuoteLines(ds[k].s)
                         ELSE ds[k].s)]]_vars

\* in blockquote mode a delta with a line break was inserted with the marker
\* after the break, and a delta without one was inserted as it came
C13_Witness ==
    /\ settings.useBlockquote
    /\ \E i \in 1..Len(calls) :
          calls[i].arg = StrVal(<<"x", LF, ">", SP>> \o DataMarker \o <<UE9>>)


\* the calls of the log made by invocation s
CallsOf(cs, s) == SelectSeq(cs, LAMBDA c : c.by = s)

\* a quote-prefix line: the quote marker first, then the configured prefix
\* text, or the default label when the prefix is empty
IsPrefixLine(arg) ==
    /\ arg.t = "str"
    /\ HasPrefix(arg.s, <<">", SP>>)
    /\ includes(Drop(arg.s, 2),
                IF Len(settings.blockquotePrefix) > 0
                THEN settings.blockquotePrefix
                ELSE DefaultPrefix)

\* C14: the step in which an invocation acquires its reader inserts exactly
\* one quote-prefix line in blockquote mode and nothing otherwise; the
\* invocation has inserted nothing before that step, and whatever it inserts
\* afterwards it inserts from its read loop (the model deltas), so the
\* prefix line comes once, and before the first delta.
C14_PrefixLineOnceBeforeDeltas ==
    [][\A s \in Sessions :
          \A new \in {CallsOf(NewCalls, s)} :
             /\ (pc[s] = "fetch" /\ pc'[s] = "read")
                => /\ CallsOf(calls, s) = <<>>
                   /\ IF settings.useBlockquote
                      THEN Len(new) = 1 /\ IsPrefixLine(new[1].arg)
                      ELSE new = <<>>
             /\ (new # <<>> /\ pc[s] # "fetch") => pc[s] = "read"]_vars


-----------------------------------------------------------------------------
(* The settings tab and the persistence of this.settings (SpecSettings) *)

sessionVars ==
    <<build, loader, isStreaming, streamReader, pc, prompt, posted, buffer, awaiting,
      stream, pending, jobs, calls, notices, end, stopped>>

\* an onChange handler: this.settings.<field> = value; await this.saveSettings()
changeSetting(st) ==
    /\ settings' = st
    /\ data' = saveData(build, st)
    /\ loaded' = FALSE
    /\ UNCHANGED sessionVars

changeApiKey(value) == changeSetting([settings EXCEPT !.openAiApiKey = value])
changeTemperature(value) == changeSetting([settings EXCEPT !.temperature = value])
changeFrequencyPenalty(value) ==
    changeSetting([settings EXCEPT !.frequencyPenalty = value])
changePresencePenalty(value) ==
    changeSetting([settings EXCEPT !.presencePenalty = value])
changeTopP(value) == changeSetting([settings EXCEPT !.topP = value])
\* this.settings.maxTokens = parseInt(value)
changeMaxTokens(value) == changeSetting([settings EXCEPT !.maxTokens = parseInt(value)])
changeUseBlockquote(value) == changeSetting([settings EXCEPT !.useBlockquote = value])
changeBlockquotePrefix(value) ==
    /\ build = "part_000"
    /\ changeSetting([settings EXCEPT !.blockquotePrefix = value])

\* loadSettings, run by onload when the plugin is started again
loadSettings ==
    /\ settings' = assignSettings(build, loadData(data))
    /\ loaded' = TRUE
    /\ UNCHANGED data
    /\ UNCHANGED sessionVars

NextSettings ==
    \/ \E value \in ApiKeys : changeApiKey(value)
    \/ \E value \in Temperatures : changeTemperature(value)
    \/ \E value \in FrequencyPenalties : changeFrequencyPenalty(value)
    \/ \E value \in PresencePenalties : changePresencePenalty(value)
    \/ \E value \in TopPs : changeTopP(value)
    \/ \E value \in MaxTokensEntries : changeMaxTokens(value)
    \/ \E value \in BOOLEAN : changeUseBlockquote(value)
    \/ \E value \in PrefixEntries : changeBlockquotePrefix(value)
    \/ loadSettings

SpecSettings == Init /\ [][NextSettings]_vars

\* C15: loadSettings after saveSettings gives back the saved record: a step
\* of loadSettings that follows a save leaves every field of this.settings as
\* it was saved.
C15_SettingsRoundTrip ==
    [][(~loaded /\ loaded') => settings' = settings]_vars


-----------------------------------------------------------------------------
(* The auxiliary-content loader (SpecLoader) *)

MaxPathLen == 4

PathAlphabet == {"/", ".", "~", BS, ":", "a", "C"}

\* the paths a note's block can name: every text up to MaxPathLen over the
\* alphabet, and some longer ones
ShortPaths == UNION {[1..n -> PathAlphabet] : n \in 1..MaxPathLen}
LongPaths ==
    {<<"~", "/", ".", ".", "/", "a">>,
     <<"a", "/", ".", ".", "/", "d">>,
     <<"C", ":", BS, "a", BS, "b">>,
     <<"x">> \o AndroidSdcard \o <<"y">>,
     <<"x">> \o AndroidEmulated \o <<"0">>}
FsNames == {<<"a">>, <<"b">>, <<"d">>, <<"e">>, <<"x">>, <<"~", "/", "a">>}
PathLists ==
    {<<p>> : p \in ShortPaths \cup LongPaths}
    \cup {<<p, q>> : p \in FsNames, q \in FsNames}
    \cup {<<p, q, r>> : p \in {<<"e">>, <<"b">>}, q \in FsNames, r \in {<<"d">>}}

InitLoader ==
    /\ InitWith({DEFAULT_SETTINGS})
    /\ loader \in {Loader(l, <<>>, <<>>, 0) : l \in PathLists}

\* one turn of the for loop of resolveAndReadFiles: resolve the path, then
\* the try block (stat, readdir, readFile, push) and its catch (console.error)
readNextPath(resolvedPath) ==
    /\ loader' = Loader(Tail(loader.filePaths),
                        resolvedPath,
                        loader.filesContent \o readPath(resolvedPath),
                        loader.logged + (IF readThrows(resolvedPath) THEN 1 ELSE 0))
    /\ UNCHANGED <<build, settings, data, loaded, isStreaming, streamReader, pc,
                   prompt, posted, buffer, awaiting, stream, pending, jobs, calls,
                   notices, end, stopped>>

loaderStep ==
    /\ loader.filePaths # <<>>
    /\ readNextPath(resolvePathOf(build, Head(loader.filePaths)))

NextLoader == loaderStep

SpecLoader == InitLoader /\ [][NextLoader]_vars

\* the files a resolved path names that can be read, in enumeration order
ReadableFiles(path) ==
    IF FileSystem(path).kind = "file" THEN <<FileEntry(path, FileSystem(path).content)>>
    ELSE IF FileSystem(path).kind # "dir" THEN <<>>
    ELSE Flatten([i \in 1..Len(FileSystem(path).entries) |->
            IF /\ FileSystem(path).entries[i].isFile
               /\ FileSystem(pathJoin(path, FileSystem(path).entries[i].name)).kind
                  = "file"
            THEN <<FileEntry(pathJoin(path, FileSystem(path).entries[i].name),
                             FileSystem(pathJoin(path,
                                 FileSystem(path).entries[i].name)).content)>>
            ELSE <<>>])

\* a stat or read failure happens on the path
PathFails(path) ==
    \/ FileSystem(path).kind \notin {"file", "dir"}
    \/ /\ FileSystem(path).kind = "dir"
       /\ \E i \in 1..Len(FileSystem(path).entries) :
             /\ FileSystem(path).entries[i].isFile
             /\ FileSystem(pathJoin(path, FileSystem(path).entries[i].name)).kind
                # "file"

\* C16: every turn of the loader ends normally and goes on to the next
\* path; a failure on the path is logged; the path adds its readable files to
\* the end of the output, in enumeration order, or, when a failure happened
\* on it, nothing; what earlier paths added stays.
C16_BadPathSkippedOthersRead ==
    [][(loader.filePaths # <<>> /\ loader' # loader)
       => \A path \in {loader'.resolvedPath} :
            /\ loader'.filePaths = Tail(loader.filePaths)
            /\ loader'.logged = loader.logged + (IF PathFails(path) THEN 1 ELSE 0)
            /\ \/ loader'.filesContent = loader.filesContent \o ReadableFiles(path)
               \/ PathFails(path) /\ loader'.filesContent = loader.filesContent]_vars

\* after the replacement of backslashes: a drive letter, a colon, a slash
IsDriveAbsolute(p) == Len(p) >= 3 /\ p[1] \in Letters /\ p[2] = ":" /\ p[3] = "/"

\* the location the precedence (a) absolute, (b) home, (c)/(d) document root
\* gives the path p whose backslashes were replaced
Classified(p) ==
    IF HasPrefix(p, <<"/">>) \/ IsDriveAbsolute(p) THEN p
    ELSE IF HasPrefix(p, <<"~">>) THEN pathJoin(HomeDir, Tail(p))
    ELSE pathResolve(VaultRoot, p)

\* C17: resolvePath of part_000 gives every path, its backslashes replaced by
\* slashes, the location of the precedence: unchanged when absolute (a
\* leading slash, which covers UNC, or a drive letter), else expanded against
\* the home directory when it starts with "~" (also when it contains ".."),
\* else resolved against the document root.
C17_ResolvePrecedence ==
    [][(build = "part_000" /\ loader.filePaths # <<>> /\ loader' # loader)
       => loader'.resolvedPath
          = Classified([i \in 1..Len(Head(loader.filePaths)) |->
                          IF Head(loader.filePaths)[i] = BS
                          THEN "/"
                          ELSE Head(loader.filePaths)[i]])]_vars


-----------------------------------------------------------------------------
(* The message list of the POST (Spec) *)

\* the fixed system instruction, then one system message "File: {path}" /
\* {content} per file, then the user message with the document text
ExpectedMessages(text, files) ==
    [i \in 1..(Len(files) + 2) |->
        IF i = 1 THEN blockQuotePrompts[1]
        ELSE IF i = Len(files) + 2 THEN Prompt("user", text)
        ELSE Prompt("system",
                    <<<<"F", "i", "l", "e", ":", SP>> \o files[i - 1].path,
                      files[i - 1].content>>)]

\* C18: the message list an invocation hands to the POST is the fixed system
\* instruction, then one system message per file of the loader's output in
\* that order, then one user message holding the document text as it is.
C18_MessageListOrder ==
    [][\A s \in Sessions :
          /\ (pc[s] = "idle" /\ pc'[s] = "fetch")
             => \E text \in Notes : posted'[s] = ExpectedMessages(text, <<>>)
          /\ (pc[s] = "files" /\ pc'[s] = "fetch")
             => posted'[s]
                = ExpectedMessages(
                      prompt[s],
                      resolveAndReadFiles(build, parseJujunautFilesBlock(prompt[s])))]_vars


-----------------------------------------------------------------------------
(* Return to idle under a fair transport (SpecLive) *)

\* the transport ends body r while a read of it is pending: with the end of
\* the stream once every byte was delivered, or with an error.  A read that
\* resolves with data is followed by the next read, and a body has finitely
\* many bytes, so a transport that settles every pending read is one that
\* ends every body that has a read pending.
transportSettles(r) == streamCloses(r) \/ streamErrors(r)

\* The invocations of Spec on a note that names no files, in plain mode, with
\* a transport that settles every pending read and an event loop that runs
\* every queued promise job.
InitLive ==
    /\ InitWith({DEFAULT_SETTINGS})
    /\ loader = LoaderIdle

NextLive ==
    \/ \E s \in Sessions : generateText(s, NoteHello)
    \/ \E s \in Sessions : \E body \in Responses : fetchResolves(s, body)
    \/ \E s \in Sessions : fetchNoBody(s)
    \/ \E s \in Sessions : fetchRejects(s)
    \/ \E s \in Sessions :
          \E n \in FrameCuts(Awaited(s).bytes, Awaited(s).pos) :
              readResolvesValue(s, n)
    \/ \E r \in Sessions : streamCloses(r)
    \/ \E r \in Sessions : streamErrors(r)
    \/ readSettles
    \/ stopStreaming

SpecLive ==
    /\ InitLive
    /\ [][NextLive]_vars
    /\ WF_vars(readSettles)
    /\ \A r \in Sessions : WF_vars(transportSettles(r))

\* C19: every invocation that entered its read loop is followed by a state
\* in which isStreaming is false and streamReader is null, where generateText
\* passes its guard again.
C19_StreamingReturnsToIdle ==
    \A s \in Sessions :
        (pc[s] = "read") ~> (~isStreaming /\ streamReader = NoReader)

\* an invocation read its body to the end of the stream and the flag and the
\* reader are reset
C19_Witness ==
    \E s \in Sessions :
        /\ pc[s] = "done"
        /\ end[s] = "eos"
        /\ ~isStreaming
        /\ streamReader = NoReader


-----------------------------------------------------------------------------
(* The flag and the reader field (Spec) *)

\* C20: in every state between two operations (every state of the model: an
\* action runs from one suspension point to the next), isStreaming is true
\* exactly when streamReader is not null.
C20_FlagIffReader == isStreaming <=> (streamReader # NoReader)

\* an invocation has ended and reset the pair, and a later one holds the
\* reader with the flag set
C20_Witness ==
    \E s, t \in Sessions :
        /\ pc[s] = "done"
        /\ pc[t] = "read"
        /\ streamReader = t
        /\ isStreaming


-----------------------------------------------------------------------------
(* A stop before the reader is acquired (Spec) *)

\* the invocations that passed the guards and hold no reader yet: their
\* files are being read or their POST is pending
Pending == {s \in Sessions : pc[s] \in {"files", "fetch"}}

\* C21: a stopStreaming call made while an invocation is pending changes
\* neither isStreaming nor streamReader and leaves the invocation as it is
\* (its place, its captured text, its POST); the response that then arrives
\* still takes the invocation into the read loop, flag set and reader held.
C21_EarlyStopChangesNothing ==
    [][\A s \in Sessions :
          /\ (s \in Pending /\ notices'[NoticeStopped] # notices[NoticeStopped])
             => /\ isStreaming' = isStreaming
                /\ streamReader' = streamReader
                /\ pc'[s] = pc[s]
                /\ prompt'[s] = prompt[s]
                /\ posted'[s] = posted[s]
          /\ (pc[s] = "fetch" /\ pc'[s] = "read")
             => /\ isStreaming'
                /\ streamReader' = s
                /\ stream'[s].state = "readable"]_vars


-----------------------------------------------------------------------------
(* What is left in the buffer when an invocation ends (SpecChunk) *)

\* how many of the complete lines cause an insertion
InsertingLines(lines, useBlockquote) ==
    Cardinality({i \in 1..(Len(lines) - 1) :
                    insertJson(JSONparse(lines[i]), useBlockquote) # <<>>})

\* C22: the text after the last line break is never parsed and never
\* inserted: a chunk step makes one insertion per complete line that
\* inserts and none for what follows the last line break, which it keeps as
\* the buffer; and the step that ends the invocation (end of stream, error
\* or stop) makes no insertion and drops the buffer, whatever it holds.
C22_ResidualNeverInserted ==
    [][/\ ChunkStep(1)
          => \A lines \in {ChunkLines(1, ChunkValue(1, stream'[1].pos))} :
               /\ Len(NewCalls) = InsertingLines(lines, settings.useBlockquote)
               /\ buffer'[1] = lines[Len(lines)]
       /\ (pc[1] = "read" /\ pc'[1] = "done")
          => /\ calls' = calls
             /\ buffer'[1] = <<>>]_vars

\* the body whose last record no line break ends was read to the end of the
\* stream: the first delta is the only insertion
C22_Witness ==
    /\ pc[1] = "done"
    /\ end[1] = "eos"
    /\ ~settings.useBlockquote
    /\ ArgsOf(calls) = <<StrVal(<<"u">>)>>

=============================================================================
